---- MODULE Spec2Model ----
(***************************************************************************)
(* The HTML -> JIRA markup converter of conv.py (html_to_jira_markup and   *)
(* its nested helpers process_element, process_list_item, process_table).  *)
(*                                                                         *)
(* A Python str is a sequence of one-character strings.  A node of the     *)
(* parsed tree is a record: a NavigableString carries `text`, a Tag        *)
(* carries `name`, `attrs` (ordered <<key, value>> pairs) and `children`.  *)
(***************************************************************************)
EXTENDS Integers, Sequences, FiniteSets, TLC

VARIABLES pc, soup, jira_markup

\* 3.py: the position in main / process_email_to_jira, the mail folder and
\* the issues on the two servers, and main's locals
VARIABLES main_pc, folder, issues, runs, messages, message, success_count,
          jira_issue, requests, outcomes, reported

conv_vars == <<pc, soup, jira_markup>>

mail_vars == <<main_pc, folder, issues, runs, messages, message, success_count,
               jira_issue, requests, outcomes, reported>>

vars == <<pc, soup, jira_markup, main_pc, folder, issues, runs, messages, message,
          success_count, jira_issue, requests, outcomes, reported>>

(***************************************************************************)
(* Python built-ins used by the converter                                  *)
(***************************************************************************)
NL == "\n"

\* the characters str.strip() removes (the ones the model's alphabet has)
Whitespace == {" ", "\n", "\t"}

RECURSIVE lstrip(_)
lstrip(s) ==
    IF s = <<>> THEN <<>>
    ELSE IF Head(s) \in Whitespace THEN lstrip(Tail(s)) ELSE s

RECURSIVE rstrip(_)
rstrip(s) ==
    IF s = <<>> THEN <<>>
    ELSE IF s[Len(s)] \in Whitespace THEN rstrip(SubSeq(s, 1, Len(s) - 1)) ELSE s

\* str.strip()
strip(s) == rstrip(lstrip(s))

\* ''.join(parts)
RECURSIVE join(_)
join(parts) ==
    IF parts = <<>> THEN <<>> ELSE Head(parts) \o join(Tail(parts))

\* sep.join(parts)
RECURSIVE join_with(_, _)
join_with(sep, parts) ==
    IF parts = <<>> THEN <<>>
    ELSE IF Len(parts) = 1 THEN Head(parts)
    ELSE Head(parts) \o sep \o join_with(sep, Tail(parts))

\* s.split('\n'): always at least one piece
RECURSIVE split_lines(_)
split_lines(s) ==
    IF \A i \in 1..Len(s) : s[i] # NL THEN <<s>>
    ELSE LET k == CHOOSE i \in 1..Len(s) :
                      s[i] = NL /\ \A j \in 1..(i - 1) : s[j] # NL
         IN  <<SubSeq(s, 1, k - 1)>> \o split_lines(SubSeq(s, k + 1, Len(s)))

\* marker * n
RECURSIVE repeat(_, _)
repeat(c, n) == IF n <= 0 THEN <<>> ELSE <<c>> \o repeat(c, n - 1)

\* length of the run of newlines s starts with
RECURSIVE newline_run(_)
newline_run(s) ==
    IF s # <<>> /\ Head(s) = NL THEN 1 + newline_run(Tail(s)) ELSE 0

\* mutant: the pattern \n{3} instead of \n{3,}
RECURSIVE collapse_exactly_three(_)
collapse_exactly_three(s) ==
    IF s = <<>> THEN <<>>
    ELSE IF newline_run(s) >= 3
         THEN <<NL, NL>> \o collapse_exactly_three(SubSeq(s, 4, Len(s)))
         ELSE <<Head(s)>> \o collapse_exactly_three(Tail(s))

\* mutant: a run of 3 or more loses one newline
RECURSIVE collapse_drop_one(_)
collapse_drop_one(s) ==
    IF s = <<>> THEN <<>>
    ELSE LET n == newline_run(s)
         IN  IF n >= 3
             THEN repeat(NL, n - 1) \o collapse_drop_one(SubSeq(s, n + 1, Len(s)))
             ELSE <<Head(s)>> \o collapse_drop_one(Tail(s))

\* re.sub(r'\n{3,}', '\n\n', s): leftmost, greedy, non-overlapping
RECURSIVE collapse_newlines(_)
collapse_newlines(s) ==
    IF s = <<>> THEN <<>>
    ELSE LET n == newline_run(s)
         IN  IF n >= 3
             THEN <<NL, NL>> \o collapse_newlines(SubSeq(s, n + 1, Len(s)))
             ELSE <<Head(s)>> \o collapse_newlines(Tail(s))

(***************************************************************************)
(* The parsed tree (what BeautifulSoup(html_content, 'html.parser') hands  *)
(* to the converter)                                                       *)
(***************************************************************************)
\* a text node; its .name is None, written "" here
NavigableString(s) ==
    [kind |-> "text", name |-> "", attrs |-> <<>>, children |-> <<>>, text |-> s]

Tag(name, attrs, children) ==
    [kind |-> "tag", name |-> name, attrs |-> attrs, children |-> children,
     text |-> <<>>]

\* the BeautifulSoup object: a Tag named [document]
BeautifulSoup(children) == Tag("[document]", <<>>, children)

\* element.get(key, default)
RECURSIVE get(_, _, _)
get(attrs, key, default) ==
    IF attrs = <<>> THEN default
    ELSE IF Head(attrs)[1] = key THEN Head(attrs)[2]
    ELSE get(Tail(attrs), key, default)

\* every node below el, in document order
RECURSIVE descendants(_)
descendants(el) ==
    join([i \in 1..Len(el.children) |->
            <<el.children[i]>> \o descendants(el.children[i])])

\* el.find_all(names): the descendant tags with one of the names
find_all(el, names) ==
    SelectSeq(descendants(el), LAMBDA n : n.kind = "tag" /\ n.name \in names)

\* el.find_all(names, recursive=False): the child tags with one of the names
find_all_direct(el, names) ==
    SelectSeq(el.children, LAMBDA n : n.kind = "tag" /\ n.name \in names)

\* el.get_text(): every string below el, concatenated
get_text(el) ==
    LET below == descendants(el)
    IN  join([i \in 1..Len(below) |->
                IF below[i].kind = "text" THEN below[i].text ELSE <<>>])

(***************************************************************************)
(* The converter                                                           *)
(***************************************************************************)
\* tag[1] of a header tag
header_level(tag) ==
    CASE tag = "h1" -> "1" [] tag = "h2" -> "2" [] tag = "h3" -> "3"
      [] tag = "h4" -> "4" [] tag = "h5" -> "5" [] tag = "h6" -> "6"

Headers == {"h1", "h2", "h3", "h4", "h5", "h6"}

RECURSIVE process_element(_, _, _)
RECURSIVE process_list_item(_, _, _)
RECURSIVE process_table(_)

\* ''.join(process_element(child) for child in element.children)
inline_children(element) ==
    join([i \in 1..Len(element.children) |->
            process_element(element.children[i], "None", 0)])

\* mutant: the children are rendered last to first
container_children_reversed(element, list_type, list_level) ==
    join([i \in 1..Len(element.children) |->
            process_element(element.children[Len(element.children) + 1 - i],
                            list_type, list_level)])

\* for child in element.children: result.append(process_element(child, list_type, list_level))
container_children(element, list_type, list_level) ==
    join([i \in 1..Len(element.children) |->
            process_element(element.children[i], list_type, list_level)])

\* mutant: whitespace-only text is kept
text_markup_verbatim(text) == text

\* a NavigableString: kept verbatim unless it is whitespace only
text_markup(text) == IF strip(text) # <<>> THEN text ELSE <<>>

\* mutant: the content is not trimmed at all
header_markup_untrimmed(tag, content) ==
    <<"h", header_level(tag), ".", " ">> \o content \o <<NL, NL>>

\* mutant: only trailing whitespace is trimmed
header_markup_rstrip(tag, content) ==
    <<"h", header_level(tag), ".", " ">> \o rstrip(content) \o <<NL, NL>>

\* f'h{level}. {content.strip()}\n\n'
header_markup(tag, content) ==
    <<"h", header_level(tag), ".", " ">> \o strip(content) \o <<NL, NL>>

\* mutant: markdown's bold delimiter
bold_markup_markdown(content) == <<"*", "*">> \o content \o <<"*", "*">>

\* f'*{content}*'
bold_markup(content) == <<"*">> \o content \o <<"*">>

\* f'_{content}_'
italic_markup(content) == <<"_">> \o content \o <<"_">>

\* f'+{content}+'
underline_markup(content) == <<"+">> \o content \o <<"+">>

\* mutant: the strikethrough delimiter of another dialect
strike_markup_tilde(content) == <<"~">> \o content \o <<"~">>

\* f'-{content}-'
strike_markup(content) == <<"-">> \o content \o <<"-">>

\* f'{{{content}}}'
code_markup(content) == <<"{">> \o content \o <<"}">>

\* f'{{code}}\n{content}\n{{code}}\n\n'
pre_markup(content) ==
    <<"{", "c", "o", "d", "e", "}", NL>> \o content
        \o <<NL, "{", "c", "o", "d", "e", "}", NL, NL>>

\* mutant: the link text is not trimmed
link_markup_unstripped(href, content) ==
    IF href # <<>>
    THEN <<"[">> \o content \o <<"|">> \o href \o <<"]">>
    ELSE content

\* the a branch: a link when href is truthy, the bare content otherwise
link_markup(href, content) ==
    IF href # <<>>
    THEN <<"[">> \o strip(content) \o <<"|">> \o href \o <<"]">>
    ELSE content

\* mutant: the marker is emitted whatever src is
image_markup_always(src) == <<"!">> \o src \o <<"!">>

\* the img branch
image_markup(src) == IF src # <<>> THEN <<"!">> \o src \o <<"!">> ELSE <<>>

\* f'{content.strip()}\n\n'
paragraph_markup(content) == strip(content) \o <<NL, NL>>

\* mutant: blank lines are quoted too
blockquote_markup_all_lines(content) ==
    LET lines == split_lines(strip(content))
    IN  join([i \in 1..Len(lines) |->
                <<"b", "q", ".", " ">> \o strip(lines[i]) \o <<NL>>])
        \o <<NL>>

\* the blockquote branch: one `bq. ` line per non-blank line, then a newline
blockquote_markup(content) ==
    LET lines == split_lines(strip(content))
    IN  join([i \in 1..Len(lines) |->
                IF strip(lines[i]) # <<>>
                THEN <<"b", "q", ".", " ">> \o strip(lines[i]) \o <<NL>>
                ELSE <<>>])
        \o <<NL>>

\* mutant: the children that are not li are rendered too
list_children_all(element, marker, list_level) ==
    join([i \in 1..Len(element.children) |->
            IF element.children[i].name = "li"
            THEN process_list_item(element.children[i], marker, list_level)
            ELSE process_element(element.children[i], marker, list_level)])

\* the ul / ol branch: list items of the direct li children
list_children(element, marker, list_level) ==
    join([i \in 1..Len(element.children) |->
            IF element.children[i].name = "li"
            THEN process_list_item(element.children[i], marker, list_level)
            ELSE <<>>])

process_element(element, list_type, list_level) ==
    IF element.kind = "text"
    THEN text_markup(element.text)
    ELSE LET tag == element.name IN
         CASE tag \in Headers -> header_markup(tag, inline_children(element))
           [] tag \in {"b", "strong"} -> bold_markup(inline_children(element))
           [] tag \in {"i", "em"} -> italic_markup(inline_children(element))
           [] tag = "u" -> underline_markup(inline_children(element))
           [] tag \in {"s", "strike", "del"} ->
                strike_markup(inline_children(element))
           [] tag = "code" -> code_markup(inline_children(element))
           [] tag = "pre" -> pre_markup(get_text(element))
           [] tag = "a" ->
                link_markup(get(element.attrs, "href", <<>>),
                            inline_children(element))
           [] tag = "img" -> image_markup(get(element.attrs, "src", <<>>))
           [] tag = "p" -> paragraph_markup(inline_children(element))
           [] tag = "br" -> <<NL>>
           [] tag = "hr" -> <<"-", "-", "-", "-", NL, NL>>
           [] tag = "blockquote" ->
                blockquote_markup(inline_children(element))
           [] tag = "ul" -> list_children(element, "*", list_level)
           [] tag = "ol" -> list_children(element, "#", list_level)
           [] tag = "table" -> process_table(element)
           [] tag \in {"div", "span", "body", "html"} ->
                container_children(element, list_type, list_level)
           [] OTHER ->
                container_children(element, list_type, list_level)

\* mutant: marker * level
item_prefix_level(marker, level) == repeat(marker, level)

\* prefix = marker * (level + 1)
item_prefix(marker, level) == repeat(marker, level + 1)

\* '*' if child.name == 'ul' else '#'
new_marker(child) == IF child.name = "ul" THEN "*" ELSE "#"

\* one child of a list item: the items of a nested list, or the child itself
list_item_part(child, marker, level) ==
    IF child.name \in {"ul", "ol"}
    THEN LET nested == find_all_direct(child, {"li"})
         IN  join([j \in 1..Len(nested) |->
                     <<NL>> \o process_list_item(nested[j], new_marker(child),
                                                 level + 1)])
    ELSE process_element(child, marker, level)

process_list_item(li, marker, level) ==
    LET content == strip(join([i \in 1..Len(li.children) |->
                                 list_item_part(li.children[i], marker, level)]))
    IN  item_prefix(marker, level) \o <<" ">> \o content \o <<NL>>

\* the stripped renderings of the cells of a row
row_cells(tr) ==
    LET found == find_all(tr, {"th", "td"})
    IN  [i \in 1..Len(found) |-> strip(inline_children(found[i]))]

header_row(cells) == <<"|", "|">> \o join_with(<<"|", "|">>, cells) \o <<"|", "|">>

data_row(cells) == <<"|">> \o join_with(<<"|">>, cells) \o <<"|">>

\* the line of one row: nothing when the row has no cells
row_line(tr, is_header) ==
    LET cells == row_cells(tr)
    IN  IF cells = <<>> THEN <<>>
        ELSE IF is_header THEN <<header_row(cells)>> ELSE <<data_row(cells)>>

\* for tr in section.find_all('tr'): a line for every row that has cells
section_rows(section, is_header) ==
    LET trs == find_all(section, {"tr"})
    IN  join([i \in 1..Len(trs) |-> row_line(trs[i], is_header)])

\* for section in table.find_all(name): the lines of all its rows
sections_rows(table, name, is_header) ==
    LET sections == find_all(table, {name})
    IN  join([i \in 1..Len(sections) |-> section_rows(sections[i], is_header)])

\* mutant: has_th is ignored
direct_rows_data_only(table) ==
    LET trs == find_all_direct(table, {"tr"})
    IN  join([i \in 1..Len(trs) |-> row_line(trs[i], FALSE)])

\* the direct rows: header syntax when the row has a th somewhere below it
direct_rows(table) ==
    LET trs == find_all_direct(table, {"tr"})
    IN  join([i \in 1..Len(trs) |->
                row_line(trs[i], find_all(trs[i], {"th"}) # <<>>)])

\* mutant: the direct rows are used only when the table has no section element
table_rows_sectionless(table) ==
    IF find_all(table, {"thead", "tbody"}) = <<>>
    THEN direct_rows(table)
    ELSE sections_rows(table, "thead", TRUE)
             \o sections_rows(table, "tbody", FALSE)

table_rows(table) ==
    LET sectioned == sections_rows(table, "thead", TRUE)
                         \o sections_rows(table, "tbody", FALSE)
    IN  IF sectioned = <<>> THEN direct_rows(table) ELSE sectioned

\* mutant: one newline after the last row
process_table_one_newline(table) ==
    LET rows == table_rows(table)
    IN  IF rows # <<>> THEN join_with(<<NL>>, rows) \o <<NL>> ELSE <<>>

process_table(table) ==
    LET rows == table_rows(table)
    IN  IF rows # <<>> THEN join_with(<<NL>>, rows) \o <<NL, NL>> ELSE <<>>

\* the whole conversion of a parsed tree
html_to_jira_markup(tree) ==
    strip(collapse_newlines(process_element(tree, "None", 0)))

(***************************************************************************)
(* The interpreter's call stack                                            *)
(***************************************************************************)
\* the deepest chain of nested calls the interpreter allows (scaled down)
RecursionLimit == 12

max_of(S) == IF S = {} THEN 0 ELSE CHOOSE m \in S : \A x \in S : x <= m

\* the cells process_table visits
visited_cells(table) ==
    LET cells_below(names) ==
            LET sections == find_all(table, names)
                trs == join([i \in 1..Len(sections) |->
                               find_all(sections[i], {"tr"})])
            IN  join([i \in 1..Len(trs) |-> find_all(trs[i], {"th", "td"})])
        direct == find_all_direct(table, {"tr"})
    IN  cells_below({"thead"}) \o cells_below({"tbody"})
        \o (IF sections_rows(table, "thead", TRUE)
                 \o sections_rows(table, "tbody", FALSE) = <<>>
            THEN join([i \in 1..Len(direct) |->
                         find_all(direct[i], {"th", "td"})])
            ELSE <<>>)

RECURSIVE call_depth(_)
RECURSIVE item_depth(_)

\* nested calls of process_element / process_list_item / process_table
\* that process_element(element) needs
call_depth(element) ==
    IF element.kind = "text" THEN 1
    ELSE LET tag == element.name
             kids == element.children
         IN  CASE tag \in {"pre", "br", "hr", "img"} -> 1
               [] tag \in {"ul", "ol"} ->
                    1 + max_of({item_depth(kids[i]) :
                                  i \in {j \in 1..Len(kids) : kids[j].name = "li"}})
               [] tag = "table" ->
                    LET cells == visited_cells(element)
                    IN  2 + max_of(UNION {{call_depth(cells[i].children[j]) :
                                                j \in 1..Len(cells[i].children)} :
                                              i \in 1..Len(cells)})
               [] OTHER ->
                    1 + max_of({call_depth(kids[i]) : i \in 1..Len(kids)})

item_depth(li) ==
    LET kids == li.children
        part(child) ==
            IF child.name \in {"ul", "ol"}
            THEN max_of({item_depth(n) :
                           n \in {child.children[j] :
                                    j \in {k \in 1..Len(child.children) :
                                             child.children[k].kind = "tag"
                                             /\ child.children[k].name = "li"}}})
            ELSE call_depth(child)
    IN  1 + max_of({part(kids[i]) : i \in 1..Len(kids)})

(***************************************************************************)
(* Input trees                                                             *)
(***************************************************************************)
MaxRunLen == 6
MaxTextLen == 3
MaxBlocks == 3
MaxItems == 2
MaxWrap == 1
MaxCols == 2
MaxRows == 2
MaxWsLen == 2
MaxPreLen == 5

\* the sequences over S of length exactly n / between 1 and n
RECURSIVE SeqsOfLen(_, _)
SeqsOfLen(S, n) ==
    IF n = 0 THEN {<<>>}
    ELSE {<<x>> \o t : x \in S, t \in SeqsOfLen(S, n - 1)}

SeqsUpTo(S, n) == UNION {SeqsOfLen(S, k) : k \in 1..n}

El(name, children) == Tag(name, <<>>, children)

Txt(s) == NavigableString(s)

\* <h1>Bug</h1><p>This is <strong>critical</strong>.</p>
ExampleTree ==
    BeautifulSoup(<<
        El("h1", <<Txt(<<"B", "u", "g">>)>>),
        El("p", <<Txt(<<"T", "h", "i", "s", " ", "i", "s", " ">>),
                  El("strong", <<Txt(<<"c", "r", "i", "t", "i", "c", "a", "l">>)>>),
                  Txt(<<".">>)>>)>>)

\* a document that is one text node: every mix of x and newlines
TextInputs ==
    {BeautifulSoup(<<Txt(t)>>) : t \in SeqsUpTo({"x", NL}, MaxRunLen)}

\* a document that is a run of blocks
BlockNodes ==
    {Txt(<<" ", "x">>),
     El("br", <<>>),
     El("p", <<Txt(<<"x">>)>>),
     El("hr", <<>>),
     El("pre", <<Txt(<<NL, NL, NL, "x">>)>>),
     El("div", <<El("br", <<>>), El("br", <<>>)>>)}

BlockInputs ==
    {BeautifulSoup(kids) : kids \in SeqsUpTo(BlockNodes, MaxBlocks) \cup {<<>>}}

\* <hN>T</hN>
InlineTexts == SeqsUpTo({"a", " ", NL}, MaxTextLen)

HeaderNames == <<"h1", "h2", "h3", "h4", "h5", "h6">>

HeaderDoc(n, t) == BeautifulSoup(<<El(HeaderNames[n], <<Txt(t)>>)>>)

HeaderInputs == {HeaderDoc(n, t) : n \in 1..6, t \in InlineTexts}

\* <a ...>T</a>
LinkAttrs ==
    {<<>>,
     <<<<"href", <<>>>>>>,
     <<<<"href", <<"u">>>>>>,
     <<<<"class", <<"c">>>>, <<"href", <<"u", "/", "v">>>>>>}

LinkDoc(attrs, t) == BeautifulSoup(<<Tag("a", attrs, <<Txt(t)>>)>>)

LinkInputs == {LinkDoc(at, t) : at \in LinkAttrs, t \in InlineTexts}

\* lists: items labelled a1, a2 (outer), b1, b2 (nested), c1 (third level)
Digits == <<"1", "2", "3", "4", "5", "6", "7", "8", "9">>

Label(c, i) == <<c, Digits[i]>>

Item(label, extra) == El("li", <<Txt(label)>> \o extra)

PlainItems(c, n) == [i \in 1..n |-> Item(Label(c, i), <<>>)]

ListKinds == {"ul", "ol"}

WrapperTags == {"div", "span", "p", "blockquote", "section"}

Wrappers == SeqsUpTo(WrapperTags, MaxWrap) \cup {<<>>}

WrapOne == {<<t>> : t \in WrapperTags} \cup {<<>>}

RECURSIVE wrap_in(_, _)
wrap_in(w, node) ==
    IF w = <<>> THEN node ELSE El(Head(w), <<wrap_in(Tail(w), node)>>)

\* a list of nOut items whose first item holds, inside the wrappers w, a list of nIn items
ListDoc2(k1, k2, nOut, nIn, w) ==
    BeautifulSoup(<<
        El(k1, [i \in 1..nOut |->
                  IF i = 1
                  THEN Item(Label("a", 1), <<wrap_in(w, El(k2, PlainItems("b", nIn)))>>)
                  ELSE Item(Label("a", i), <<>>)])>>)

ListDoc3(k1, k2, k3, w1, w2) ==
    BeautifulSoup(<<
        El(k1, <<Item(Label("a", 1), <<wrap_in(w1,
            El(k2, <<Item(Label("b", 1), <<wrap_in(w2,
                El(k3, PlainItems("c", 1)))>>)>>))>>)>>)>>)

\* a nested list whose only item is empty
ListDocEmpty(k1, k2) ==
    BeautifulSoup(<<
        El(k1, <<Item(Label("a", 1), <<El(k2, <<El("li", <<>>)>>)>>)>>)>>)

ListInputs ==
    {ListDocEmpty(k1, k2) : k1 \in ListKinds, k2 \in ListKinds}
    \cup
    {ListDoc2(k1, k2, nOut, nIn, w) :
        k1 \in ListKinds, k2 \in ListKinds,
        nOut \in 1..MaxItems, nIn \in 1..MaxItems, w \in Wrappers}
    \cup
    {ListDoc3(k1, k2, k3, w1, w2) :
        k1 \in ListKinds, k2 \in ListKinds, k3 \in ListKinds,
        w1 \in WrapOne, w2 \in WrapOne}

\* tables: one header row of R th cells, C data rows of K td cells
CellKids ==
    <<<<Txt(<<"x">>)>>,
      <<Txt(<<" ", "y", " ">>)>>,
      <<El("b", <<Txt(<<"z">>)>>)>>,
      <<>>>>

CellStyles == 0..(Len(CellKids) - 1)

cell_kids(r, c, style) == CellKids[((r + c + style) % Len(CellKids)) + 1]

HeaderRow(R, style) ==
    El("tr", [c \in 1..R |-> El("th", cell_kids(0, c, style))])

DataRows(C, K, style) ==
    [r \in 1..C |-> El("tr", [c \in 1..K |-> El("td", cell_kids(r, c, style))])]

Layouts == {"sections", "flat", "head_section", "body_section"}

TableDoc(layout, R, C, K, style) ==
    BeautifulSoup(<<
        El("table",
           CASE layout = "sections" ->
                  <<El("thead", <<HeaderRow(R, style)>>),
                    El("tbody", DataRows(C, K, style))>>
             [] layout = "flat" ->
                  <<HeaderRow(R, style)>> \o DataRows(C, K, style)
             [] layout = "head_section" ->
                  <<El("thead", <<HeaderRow(R, style)>>)>> \o DataRows(C, K, style)
             [] layout = "body_section" ->
                  <<HeaderRow(R, style), El("tbody", DataRows(C, K, style))>>)>>)

TableInputs ==
    {TableDoc(layout, R, C, K, style) :
        layout \in Layouts, R \in 1..MaxCols, C \in 0..MaxRows,
        K \in 1..MaxCols, style \in CellStyles}

\* direct rows beside a section that has no row with cells
TableEdgeLayouts == {"empty_head", "cellless_head", "empty_body"}

TableEdgeDoc(layout, R, C, K, style) ==
    LET flat == <<HeaderRow(R, style)>> \o DataRows(C, K, style)
    IN  BeautifulSoup(<<
          El("table",
             CASE layout = "empty_head" -> <<El("thead", <<>>)>> \o flat
               [] layout = "cellless_head" ->
                    <<El("thead", <<El("tr", <<>>)>>)>> \o flat
               [] layout = "empty_body" ->
                    flat \o <<El("tbody", <<El("tr", <<>>)>>)>>)>>)

\* a table without any cell: n rows, directly or in a section
CelllessDoc(section, n) ==
    LET trs == [i \in 1..n |-> El("tr", <<>>)]
    IN  BeautifulSoup(<<
          El("table", IF section = "" THEN trs ELSE <<El(section, trs)>>)>>)

\* direct rows with a header cell first, last or nowhere among K data cells
RowHeaderDoc(K) ==
    LET tds == [c \in 1..K |-> El("td", <<Txt(<<"y">>)>>)]
        th == El("th", <<Txt(<<"h">>)>>)
    IN  BeautifulSoup(<<
          El("table", <<El("tr", <<th>> \o tds),
                        El("tr", tds \o <<th>>),
                        El("tr", tds)>>)>>)

TableEdgeInputs ==
    {TableEdgeDoc(layout, R, C, K, style) :
        layout \in TableEdgeLayouts, R \in 1..MaxCols, C \in 0..MaxRows,
        K \in 1..MaxCols, style \in CellStyles}
    \cup
    {CelllessDoc(section, n) :
        section \in {"", "thead", "tbody"}, n \in 0..MaxRows}
    \cup
    {RowHeaderDoc(K) : K \in 1..MaxCols}

\* a whitespace-only text node between two sibling elements, in every context
WsStrings == SeqsUpTo(Whitespace, MaxWsLen)

BoldPair(ws) ==
    <<El("b", <<Txt(<<"a">>)>>), Txt(ws), El("b", <<Txt(<<"b">>)>>)>>

WsContexts ==
    {"top", "p", "pre", "div", "blockquote", "h2", "code", "em", "a", "li",
     "ul", "td", "tr", "section"}

WsDoc(ctx, ws) ==
    BeautifulSoup(
        CASE ctx = "top" -> BoldPair(ws)
          [] ctx = "a" -> <<Tag("a", <<<<"href", <<"u">>>>>>, BoldPair(ws))>>
          [] ctx = "li" -> <<El("ul", <<El("li", BoldPair(ws))>>)>>
          [] ctx = "ul" ->
               <<El("ol", <<Item(Label("a", 1), <<>>), Txt(ws),
                            Item(Label("a", 2), <<>>)>>)>>
          [] ctx = "td" -> <<El("table", <<El("tr", <<El("td", BoldPair(ws))>>)>>)>>
          [] ctx = "tr" ->
               <<El("table", <<El("tr", <<El("td", <<Txt(<<"a">>)>>), Txt(ws),
                                          El("td", <<Txt(<<"b">>)>>)>>)>>)>>
          [] OTHER -> <<El(ctx, BoldPair(ws))>>)

WsInputs == {WsDoc(ctx, ws) : ctx \in WsContexts, ws \in WsStrings}

\* n nested divs around one text node
RECURSIVE Chain(_)
Chain(n) == IF n = 0 THEN Txt(<<"x">>) ELSE El("div", <<Chain(n - 1)>>)

DeepInputs ==
    {BeautifulSoup(<<Chain(n)>>) : n \in {RecursionLimit - 2, RecursionLimit}}

\* two siblings, the first holding the text P and the second the text Q,
\* under every kind of parent; the letters occur in no markup
OrderForms == {"text", "em", "p"}

OrderNode(form, c) ==
    IF form = "text" THEN Txt(<<c>>) ELSE El(form, <<Txt(<<c>>)>>)

OrderParents ==
    {"top", "div", "p", "h3", "strong", "code", "a", "blockquote", "section",
     "li", "ul", "td", "tr", "rows", "head_body", "body_head"}

OrderDoc(parent, fa, fb) ==
    LET A == OrderNode(fa, "P")
        B == OrderNode(fb, "Q")
        Row(cell, node) == El("tr", <<El(cell, <<node>>)>>)
    IN  BeautifulSoup(
          CASE parent = "top" -> <<A, B>>
            [] parent = "a" -> <<Tag("a", <<<<"href", <<"u">>>>>>, <<A, B>>)>>
            [] parent = "li" -> <<El("ul", <<El("li", <<A, B>>)>>)>>
            [] parent = "ul" ->
                 <<El("ul", <<El("li", <<A>>), El("li", <<B>>)>>)>>
            [] parent = "td" ->
                 <<El("table", <<El("tr", <<El("td", <<A, B>>)>>)>>)>>
            [] parent = "tr" ->
                 <<El("table", <<El("tr", <<El("td", <<A>>),
                                            El("td", <<B>>)>>)>>)>>
            [] parent = "rows" ->
                 <<El("table", <<Row("td", A), Row("td", B)>>)>>
            [] parent = "head_body" ->
                 <<El("table", <<El("thead", <<Row("th", A)>>),
                                 El("tbody", <<Row("td", B)>>)>>)>>
            [] parent = "body_head" ->
                 <<El("table", <<El("tbody", <<Row("td", A)>>),
                                 El("thead", <<Row("th", B)>>)>>)>>
            [] OTHER -> <<El(parent, <<A, B>>)>>)

OrderInputs ==
    {OrderDoc(parent, fa, fb) :
        parent \in OrderParents, fa \in OrderForms, fb \in OrderForms}

\* <pre>X</pre>, and a pre whose text lies partly in an inner tag
PreTexts == SeqsUpTo({"x", " ", NL}, MaxPreLen)

PreInputs ==
    {BeautifulSoup(<<El("pre", <<Txt(t)>>)>>) : t \in PreTexts}
    \cup
    {BeautifulSoup(<<El("pre", <<Txt(<<" ", "x">>), El("b", <<Txt(t)>>)>>)>>) :
        t \in InlineTexts}

\* an item with no inline content of its own before its nested list
BareLeads == {<<>>, <<Txt(<<" ">>)>>, <<Txt(<<NL>>)>>}

ListDocBare(k1, k2, nIn, lead) ==
    BeautifulSoup(<<
        El(k1, <<El("li", lead \o <<El(k2, PlainItems("b", nIn))>>)>>)>>)

\* an item whose text has whitespace around it, with a nested list or without
ItemPads == {<<" ", "a">>, <<"a", " ">>, <<" ", "a", " ">>, <<"a", NL>>}

ListDocPad(k1, k2, t, nested) ==
    BeautifulSoup(<<
        El(k1, <<El("li", <<Txt(t)>> \o
                           (IF nested THEN <<El(k2, PlainItems("b", 1))>>
                                      ELSE <<>>))>>)>>)

ListEdgeInputs ==
    {ListDocBare(k1, k2, nIn, lead) :
        k1 \in ListKinds, k2 \in ListKinds, nIn \in 1..MaxItems,
        lead \in BareLeads}
    \cup
    {ListDocPad(k1, k2, t, nested) :
        k1 \in ListKinds, k2 \in ListKinds, t \in ItemPads,
        nested \in BOOLEAN}

\* a list whose children are items, text, a list and an element around an item
ListKidNodes ==
    {Txt(<<" ", "t">>),
     Item(Label("a", 1), <<>>),
     Item(Label("a", 2), <<>>),
     El("ol", PlainItems("b", 1)),
     El("div", <<Item(Label("c", 1), <<>>)>>)}

ListMixedInputs ==
    {BeautifulSoup(<<El(k, kids)>>) :
        k \in ListKinds, kids \in SeqsUpTo(ListKidNodes, MaxBlocks)}

\* a header whose content is text, an inline element, text
HeaderPads == {<<" ">>, <<" ", "a">>, <<"a", " ">>, <<NL, "a">>, <<"a">>}

HeaderMixInputs ==
    {BeautifulSoup(<<El(h, <<Txt(t1), El("em", <<Txt(<<"z">>)>>), Txt(t2)>>)>>) :
        h \in {"h2", "h5"}, t1 \in HeaderPads, t2 \in HeaderPads}

\* one transparent or unknown element around one or two children
ContainerTags == {"div", "span", "body", "html", "section", "font"}

ContainerKids ==
    {Txt(<<" ", "a">>),
     Txt(<<" ">>),
     El("b", <<Txt(<<"z">>)>>),
     El("p", <<Txt(<<"c">>)>>),
     El("ul", <<Item(Label("a", 1), <<>>)>>)}

ContainerInputs ==
    {BeautifulSoup(<<El(tag, kids)>>) :
        tag \in ContainerTags, kids \in SeqsUpTo(ContainerKids, 2) \cup {<<>>}}

\* a blockquote around text with blank lines and padding, paragraphs, breaks
QuoteKids ==
    {Txt(<<" ", "a", " ">>),
     Txt(<<"b", NL, NL, " ", "c">>),
     Txt(<<" ">>),
     El("p", <<Txt(<<"x">>)>>),
     El("br", <<>>),
     El("b", <<Txt(<<"z">>)>>)}

QuoteInputs ==
    {BeautifulSoup(<<El("blockquote", kids)>>) :
        kids \in SeqsUpTo(QuoteKids, 2) \cup {<<>>}}

\* <img ...> with and without src and alt
ImgSrcs == {<<>>, <<<<"src", <<>>>>>>, <<<<"src", <<"u">>>>>>,
            <<<<"src", <<"u", "/", "v">>>>>>}

ImgAlts == {<<>>, <<<<"alt", <<>>>>>>, <<<<"alt", <<"t">>>>>>,
            <<<<"alt", <<"u">>>>>>}

ImgInputs ==
    {BeautifulSoup(<<Tag("img", src \o alt, <<>>)>>) :
        src \in ImgSrcs, alt \in ImgAlts}
    \cup
    {BeautifulSoup(<<Tag("img", alt \o src, <<>>)>>) :
        src \in ImgSrcs, alt \in ImgAlts}

\* one inline formatting element around a text, or a text and an element
FormatTags == {"b", "strong", "i", "em", "u", "s", "strike", "del"}

FormatKids ==
    {<<Txt(t)>> : t \in InlineTexts}
    \cup {<<>>, <<Txt(<<"a">>), El("i", <<Txt(<<"z">>)>>)>>,
          <<El("br", <<>>), Txt(<<" ", "a">>)>>}

FormatInputs ==
    {BeautifulSoup(<<El(tag, kids)>>) : tag \in FormatTags, kids \in FormatKids}

\* a data row whose first cell holds a break, paragraphs, a list or a pre
CellBlocks ==
    {<<Txt(<<"a">>), El("br", <<>>), Txt(<<"b">>)>>,
     <<El("p", <<Txt(<<"x">>)>>), El("p", <<Txt(<<"y">>)>>)>>,
     <<El("ul", PlainItems("a", MaxItems))>>,
     <<El("pre", <<Txt(<<"x", NL, "y">>)>>)>>,
     <<Txt(<<"a">>)>>}

CellBlockInputs ==
    {BeautifulSoup(<<
        El("table", <<El(section,
            <<El("tr", <<El("td", kids), El("td", <<Txt(<<"z">>)>>)>>)>>)>>)>>) :
        kids \in CellBlocks, section \in {"tbody", "thead", "span"}}

Inputs ==
    {ExampleTree} \cup TextInputs \cup BlockInputs \cup HeaderInputs
    \cup LinkInputs \cup ListInputs \cup TableInputs \cup WsInputs
    \cup DeepInputs \cup OrderInputs \cup PreInputs \cup ContainerInputs
    \cup HeaderMixInputs \cup ListEdgeInputs \cup ListMixedInputs
    \cup TableEdgeInputs \cup QuoteInputs \cup ImgInputs \cup FormatInputs
    \cup CellBlockInputs

(***************************************************************************)
(* html_to_jira_markup, statement by statement                             *)
(***************************************************************************)
\* soup = BeautifulSoup(html_content, 'html.parser')
Init ==
    /\ pc = "parsed"
    /\ soup \in Inputs
    /\ jira_markup = <<>>
    /\ main_pc = "off"
    /\ folder = {}
    /\ issues = <<>>
    /\ runs = 0
    /\ messages = <<>>
    /\ message = 0
    /\ success_count = 0
    /\ jira_issue = "None"
    /\ requests = <<>>
    /\ outcomes = <<>>
    /\ reported = "None"

\* jira_markup = process_element(soup)
Walk ==
    /\ pc = "parsed"
    /\ call_depth(soup) <= RecursionLimit
    /\ jira_markup' = process_element(soup, "None", 0)
    /\ pc' = "walked"
    /\ UNCHANGED <<soup, mail_vars>>

\* the walk runs out of stack: the RecursionError leaves html_to_jira_markup
WalkRaises ==
    /\ pc = "parsed"
    /\ call_depth(soup) > RecursionLimit
    /\ pc' = "raised"
    /\ UNCHANGED <<soup, jira_markup, mail_vars>>

\* jira_markup = re.sub(r'\n{3,}', '\n\n', jira_markup)
Collapse ==
    /\ pc = "walked"
    /\ jira_markup' = collapse_newlines(jira_markup)
    /\ pc' = "collapsed"
    /\ UNCHANGED <<soup, mail_vars>>

\* return jira_markup.strip()
Return ==
    /\ pc = "collapsed"
    /\ jira_markup' = strip(jira_markup)
    /\ pc' = "returned"
    /\ UNCHANGED <<soup, mail_vars>>

Next == Walk \/ WalkRaises \/ Collapse \/ Return

Spec == Init /\ [][Next]_vars

(***************************************************************************)
(* Vocabulary of the properties                                            *)
(***************************************************************************)
\* sub occurs in s as a contiguous run
Contains(s, sub) ==
    \E i \in 0..(Len(s) - Len(sub)) : SubSeq(s, i + 1, i + Len(sub)) = sub

\* s has n consecutive newlines somewhere
HasNewlineRun(s, n) ==
    \E i \in 0..(Len(s) - n) : \A j \in (i + 1)..(i + n) : s[j] = NL

NonBlankLines(s) == SelectSeq(split_lines(s), LAMBDA l : l # <<>>)

\* what process_element(soup) returns
Walked == process_element(soup, "None", 0)

\* the only child of the document, when it has exactly one
OnlyChild == soup.children[1]

HasOnlyChild(names) ==
    /\ Len(soup.children) = 1
    /\ OnlyChild.kind = "tag"
    /\ OnlyChild.name \in names

MarkerOf(kind) == IF kind = "ul" THEN "*" ELSE "#"

HasAttr(attrs, key) == \E i \in 1..Len(attrs) : attrs[i][1] = key

AttrValue(attrs, key) ==
    attrs[CHOOSE i \in 1..Len(attrs) : attrs[i][1] = key][2]

(***************************************************************************)
(* C1: the example <h1>Bug</h1><p>This is <strong>critical</strong>.</p>   *)
(* converts to exactly `h1. Bug`, one blank line, `This is *critical*.`.   *)
(***************************************************************************)
C1_Example ==
    (pc = "returned" /\ soup = ExampleTree) =>
        jira_markup =
            <<"h", "1", ".", " ", "B", "u", "g", NL, NL,
              "T", "h", "i", "s", " ", "i", "s", " ",
              "*", "c", "r", "i", "t", "i", "c", "a", "l", "*", ".">>

C1_Witness == pc = "returned" /\ soup = ExampleTree

(***************************************************************************)
(* C2: the returned string has no run of three or more newlines and no     *)
(* leading or trailing whitespace, for every input tree.                   *)
(***************************************************************************)
C2_Normalised ==
    pc = "returned" =>
        /\ ~HasNewlineRun(jira_markup, 3)
        /\ jira_markup # <<>> =>
              /\ jira_markup[1] \notin Whitespace
              /\ jira_markup[Len(jira_markup)] \notin Whitespace

\* the walk produced a leading blank, a run of four newlines and a trailing newline
C2_Witness ==
    /\ pc = "returned"
    /\ jira_markup # <<>>
    /\ Walked[1] \in Whitespace
    /\ Walked[Len(Walked)] \in Whitespace
    /\ HasNewlineRun(Walked, 4)

(***************************************************************************)
(* C3: the newline collapse is idempotent: collapsing the collapsed string *)
(* again changes nothing.                                                  *)
(***************************************************************************)
C3_Idempotent ==
    pc = "collapsed" => collapse_newlines(jira_markup) = jira_markup

\* the collapse had a run of four or more newlines to work on
C3_Witness ==
    /\ pc = "collapsed"
    /\ HasNewlineRun(Walked, 4)
    /\ jira_markup # Walked

(***************************************************************************)
(* C4: an hN element whose content is the text T renders as `hN. `, then   *)
(* T with its leading and trailing whitespace removed, then two newlines,  *)
(* N being the digit of the tag.                                           *)
(***************************************************************************)
IsHeaderDoc ==
    /\ HasOnlyChild(Headers)
    /\ Len(OnlyChild.children) = 1
    /\ OnlyChild.children[1].kind = "text"

HeaderText == OnlyChild.children[1].text

C4_HeaderTrimmed ==
    (pc = "walked" /\ IsHeaderDoc) =>
        \E n \in 1..6 :
            /\ OnlyChild.name = HeaderNames[n]
            /\ jira_markup =
                 <<"h", Digits[n], ".", " ">> \o strip(HeaderText) \o <<NL, NL>>

\* the header text has whitespace around it
C4_Witness ==
    /\ pc = "walked"
    /\ IsHeaderDoc
    /\ strip(HeaderText) # HeaderText
    /\ strip(HeaderText) # <<>>

\* C4 as first stated: the output contains `hN. T` itself, then a blank line
C4_HeaderVerbatim ==
    (pc = "walked" /\ IsHeaderDoc) =>
        \E n \in 1..6 :
            /\ OnlyChild.name = HeaderNames[n]
            /\ Contains(jira_markup,
                        <<"h", Digits[n], ".", " ">> \o HeaderText \o <<NL, NL>>)

(***************************************************************************)
(* C5: an `a` element with rendered children T renders as `[S|U]`, S being *)
(* T without leading and trailing whitespace, when it has an href with a   *)
(* non-empty value U, and as T unchanged when href is absent or empty.     *)
(***************************************************************************)
IsLinkDoc == HasOnlyChild({"a"})

LinkText == inline_children(OnlyChild)

C5_LinkTrimmed ==
    (pc = "walked" /\ IsLinkDoc) =>
        IF /\ HasAttr(OnlyChild.attrs, "href")
           /\ AttrValue(OnlyChild.attrs, "href") # <<>>
        THEN jira_markup =
                 <<"[">> \o strip(LinkText) \o <<"|">>
                     \o AttrValue(OnlyChild.attrs, "href") \o <<"]">>
        ELSE jira_markup = LinkText

\* a link with an href whose text has whitespace around it
C5_Witness ==
    /\ pc = "walked"
    /\ IsLinkDoc
    /\ HasAttr(OnlyChild.attrs, "href")
    /\ AttrValue(OnlyChild.attrs, "href") # <<>>
    /\ strip(LinkText) # LinkText
    /\ strip(LinkText) # <<>>

\* C5 as first stated: `[T|U]` whenever href is present, T otherwise
C5_LinkVerbatim ==
    (pc = "walked" /\ IsLinkDoc) =>
        IF HasAttr(OnlyChild.attrs, "href")
        THEN jira_markup =
                 <<"[">> \o LinkText \o <<"|">>
                     \o AttrValue(OnlyChild.attrs, "href") \o <<"]">>
        ELSE jira_markup = LinkText

(***************************************************************************)
(* C6: for a list that is a direct child of an item of a top-level list,   *)
(* every outer item is prefixed with one marker of the outer kind and      *)
(* every nested item with two markers of the nested kind, each prefix      *)
(* followed by one space.                                                  *)
(***************************************************************************)
IsListDoc == HasOnlyChild(ListKinds)

\* the lines of ListDoc2 with the prefixes the claim states
NestedLines(k1, k2, nOut, nIn) ==
    <<<<MarkerOf(k1), " ">> \o Label("a", 1)>>
    \o [j \in 1..nIn |-> <<MarkerOf(k2), MarkerOf(k2), " ">> \o Label("b", j)]
    \o [i \in 1..(nOut - 1) |-> <<MarkerOf(k1), " ">> \o Label("a", i + 1)]

\* the list items among the children of a list
ItemsOf(list) == find_all_direct(list, {"li"})

\* the lists that are direct children of a list item
ListsIn(li) == find_all_direct(li, ListKinds)

StartsWith(s, head) == Len(s) >= Len(head) /\ SubSeq(s, 1, Len(head)) = head

C6_NestedPrefixes ==
    (pc = "walked" /\ IsListDoc) =>
        \* the output, line by line, for items that have a text
        /\ \A k1 \in ListKinds, k2 \in ListKinds,
              nOut \in 1..MaxItems, nIn \in 1..MaxItems :
               soup = ListDoc2(k1, k2, nOut, nIn, <<>>) =>
                   NonBlankLines(jira_markup) = NestedLines(k1, k2, nOut, nIn)
        \* the rendering of each item itself, empty items included
        /\ \A i \in 1..Len(ItemsOf(OnlyChild)) :
               LET li == ItemsOf(OnlyChild)[i]
                   m1 == MarkerOf(OnlyChild.name)
               IN  /\ StartsWith(process_list_item(li, m1, 0), <<m1, " ">>)
                   /\ \A j \in 1..Len(ListsIn(li)) :
                          LET m2 == MarkerOf(ListsIn(li)[j].name)
                          IN  \A k \in 1..Len(ItemsOf(ListsIn(li)[j])) :
                                 StartsWith(
                                     process_list_item(ItemsOf(ListsIn(li)[j])[k], m2, 1),
                                     <<m2, m2, " ">>)

\* an ordered list nested directly in an item of an unordered list
C6_Witness ==
    /\ pc = "walked"
    /\ soup = ListDoc2("ul", "ol", MaxItems, MaxItems, <<>>)

(***************************************************************************)
(* C7: the nesting level of a list item is the number of lists its own     *)
(* list is nested inside, whatever elements lie between the lists: an item *)
(* of a list nested once has a prefix of two markers.                      *)
(***************************************************************************)
C7_LevelCountsLists ==
    (pc = "walked" /\ IsListDoc) =>
        \A k1 \in ListKinds, k2 \in ListKinds,
           nOut \in 1..MaxItems, nIn \in 1..MaxItems, w \in Wrappers :
            soup = ListDoc2(k1, k2, nOut, nIn, w) =>
                \A j \in 1..nIn :
                    Contains(jira_markup,
                             <<MarkerOf(k2), MarkerOf(k2), " ">> \o Label("b", j))

(***************************************************************************)
(* C8: a table with one header row of R header cells and C data rows of K  *)
(* cells, all in thead/tbody sections or all directly under the table,     *)
(* renders as one `||f1||...||fR||` line and then C `|f1|...|fK|` lines.   *)
(***************************************************************************)
IsTableDoc == HasOnlyChild({"table"})

\* the trimmed renderings of CellKids
CellFields == <<<<"x">>, <<"y">>, <<"*", "z", "*">>, <<>>>>

cell_field(r, c, style) == CellFields[((r + c + style) % Len(CellFields)) + 1]

\* delim f1 delim f2 ... delim fn delim
Delimited(delim, fields) ==
    join([i \in 1..Len(fields) |-> delim \o fields[i]]) \o delim

TableLines(R, C, K, style) ==
    <<Delimited(<<"|", "|">>, [c \in 1..R |-> cell_field(0, c, style)])>>
    \o [r \in 1..C |-> Delimited(<<"|">>, [c \in 1..K |-> cell_field(r, c, style)])]

C8_TableShape ==
    (pc = "walked" /\ IsTableDoc) =>
        \A layout \in {"sections", "flat"}, R \in 1..MaxCols, C \in 0..MaxRows,
           K \in 1..MaxCols, style \in CellStyles :
            soup = TableDoc(layout, R, C, K, style) =>
                split_lines(jira_markup)
                    = TableLines(R, C, K, style) \o <<<<>>, <<>>>>

\* the widest table with the most rows, in either placement
C8_Witness ==
    /\ pc = "walked"
    /\ \E layout \in {"sections", "flat"} :
           soup = TableDoc(layout, MaxCols, MaxRows, MaxCols, 1)

(***************************************************************************)
(* C9: a whitespace-only text node between two sibling elements adds       *)
(* nothing to the returned string unless it lies inside a pre element;     *)
(* <b>a</b> <b>b</b> converts to *a**b*.                                   *)
(***************************************************************************)
IsWsBetween(kids, i) ==
    /\ 1 < i
    /\ i < Len(kids)
    /\ kids[i].kind = "text"
    /\ strip(kids[i].text) = <<>>
    /\ kids[i - 1].kind = "tag"
    /\ kids[i + 1].kind = "tag"

\* the tree without its whitespace-only text nodes between sibling elements;
\* those below a pre element go too only when in_pre is TRUE
RECURSIVE WithoutWs(_, _)
WithoutWs(node, in_pre) ==
    IF node.kind = "text" \/ (node.name = "pre" /\ ~in_pre) THEN node
    ELSE LET kids == node.children
             kept == SelectSeq([i \in 1..Len(kids) |-> i],
                               LAMBDA i : ~IsWsBetween(kids, i))
         IN  Tag(node.name, node.attrs,
                 [j \in 1..Len(kept) |-> WithoutWs(kids[kept[j]], in_pre)])

C9_WhitespaceOutsidePre ==
    pc = "returned" =>
        /\ jira_markup = html_to_jira_markup(WithoutWs(soup, FALSE))
        /\ soup = BeautifulSoup(BoldPair(<<" ">>)) =>
               jira_markup = <<"*", "a", "*", "*", "b", "*">>

\* the tree has such a text node outside pre
C9_Witness ==
    /\ pc = "returned"
    /\ WithoutWs(soup, FALSE) # soup

\* C9 as first stated: such a node adds nothing wherever it is, pre included
C9_WhitespaceAnywhere ==
    pc = "returned" =>
        /\ jira_markup = html_to_jira_markup(WithoutWs(soup, TRUE))
        /\ soup = BeautifulSoup(BoldPair(<<" ">>)) =>
               jira_markup = <<"*", "a", "*", "*", "b", "*">>

(***************************************************************************)
(* C10: the conversion never lets an exception out: a failed walk ends in  *)
(* the plain-text result, not in a raised error.                           *)
(***************************************************************************)
C10_NeverRaises == pc # "raised"

(***************************************************************************)
(* C11: the output keeps the order of the children of every element; in a  *)
(* table the rows of the header sections come first and those of the body  *)
(* sections after them, whatever the order of the sections in the tree.    *)
(***************************************************************************)
Positions(s, c) == {i \in 1..Len(s) : s[i] = c}

\* every c of s comes before every d of s, and both occur
AllBefore(s, c, d) ==
    /\ Positions(s, c) # {}
    /\ Positions(s, d) # {}
    /\ \A i \in Positions(s, c) : \A j \in Positions(s, d) : i < j

\* the tree holds the text P and, later in document order, the text Q
PBeforeQ == get_text(soup) = <<"P", "Q">>

\* a tbody of the table comes before one of its thead
BodyBeforeHead(table) ==
    \E i, j \in 1..Len(table.children) :
        /\ i < j
        /\ table.children[i].name = "tbody"
        /\ table.children[j].name = "thead"

C11_OrderKept ==
    (pc = "walked" /\ PBeforeQ) =>
        IF HasOnlyChild({"table"}) /\ BodyBeforeHead(OnlyChild)
        THEN AllBefore(jira_markup, "Q", "P")
        ELSE AllBefore(jira_markup, "P", "Q")

\* a body section with P stands before a header section with Q
C11_Witness ==
    /\ pc = "walked"
    /\ PBeforeQ
    /\ HasOnlyChild({"table"})
    /\ BodyBeforeHead(OnlyChild)

\* C11 as first stated: table sections included, P is emitted before Q
C11_OrderAlways ==
    (pc = "walked" /\ PBeforeQ) => AllBefore(jira_markup, "P", "Q")

(***************************************************************************)
(* C12: for a pre element with raw text X the returned string holds X      *)
(* character for character between a {code} line and a closing {code}     *)
(* line.                                                                   *)
(***************************************************************************)
CodeLine == <<"{", "c", "o", "d", "e", "}">>

C12_PreVerbatim ==
    (pc = "returned" /\ HasOnlyChild({"pre"})) =>
        Contains(jira_markup,
                 CodeLine \o <<NL>> \o get_text(OnlyChild) \o <<NL>> \o CodeLine)

\* what does hold: the walk, before the newline collapse, has X verbatim
C12_PreVerbatimWalked ==
    (pc = "walked" /\ HasOnlyChild({"pre"})) =>
        jira_markup =
            CodeLine \o <<NL>> \o get_text(OnlyChild) \o <<NL>> \o CodeLine
                \o <<NL, NL>>

(***************************************************************************)
(* C13: an element whose tag is div, span, body, html or no tag of the     *)
(* dispatch table renders as the concatenation, in order, of its children  *)
(* rendered under the same list marker and level, adds nothing of its own, *)
(* and never fails.                                                        *)
(***************************************************************************)
DispatchTags ==
    Headers \cup {"b", "strong", "i", "em", "u", "s", "strike", "del", "code",
                  "pre", "a", "img", "p", "br", "hr", "blockquote", "ul", "ol",
                  "table"}

IsContainer(node) == node.kind = "tag" /\ node.name \notin DispatchTags

ListTypes == {"None", "*", "#"}

\* the concatenation holds for every container of the tree, under every context
C13_Transparent ==
    pc = "walked" =>
        LET below == descendants(soup)
        IN  /\ jira_markup =
                 join([i \in 1..Len(soup.children) |->
                         process_element(soup.children[i], "None", 0)])
            /\ \A n \in 1..Len(below) : IsContainer(below[n]) =>
                 \A list_type \in ListTypes : \A list_level \in 0..2 :
                    process_element(below[n], list_type, list_level) =
                        join([i \in 1..Len(below[n].children) |->
                                process_element(below[n].children[i],
                                                list_type, list_level)])

\* C13 as stated: the concatenation, and no call on a container fails
C13_ContainerNeverFails ==
    /\ C13_Transparent
    /\ (Len(soup.children) = 1 /\ IsContainer(OnlyChild)) => pc # "raised"

(***************************************************************************)
(* C15: an h1..h6 renders as `h<level>. `, then its rendered children with *)
(* both leading and trailing whitespace trimmed, then two newlines.        *)
(***************************************************************************)
\* the children of the header, rendered and concatenated
HeaderContent ==
    join([i \in 1..Len(OnlyChild.children) |->
            process_element(OnlyChild.children[i], "None", 0)])

HeaderPrefix ==
    LET n == CHOOSE n \in 1..6 : HeaderNames[n] = OnlyChild.name
    IN  <<"h", Digits[n], ".", " ">>

C15_HeaderBothEnds ==
    (pc = "walked" /\ HasOnlyChild(Headers)) =>
        jira_markup = HeaderPrefix \o strip(HeaderContent) \o <<NL, NL>>

\* the rendered content of the header starts with whitespace and ends without
C15_Witness ==
    /\ pc = "walked"
    /\ HasOnlyChild(Headers)
    /\ Len(OnlyChild.children) > 1
    /\ lstrip(HeaderContent) # HeaderContent
    /\ rstrip(HeaderContent) = HeaderContent

\* C15 as first stated: only the trailing whitespace is trimmed
C15_HeaderTrailingOnly ==
    (pc = "walked" /\ HasOnlyChild(Headers)) =>
        jira_markup = HeaderPrefix \o rstrip(HeaderContent) \o <<NL, NL>>

(***************************************************************************)
(* C16: in the rendering of a list item, the prefix of every item of a     *)
(* nested list that is a direct child of the item comes right after a      *)
(* newline, also when the item has no inline content of its own.           *)
(***************************************************************************)
\* the text an item starts with, after the space that follows its prefix
LabelOf(li) ==
    IF li.children # <<>> /\ li.children[1].kind = "text"
    THEN <<" ">> \o li.children[1].text
    ELSE <<>>

C16_NestedOwnLine ==
    (pc = "walked" /\ IsListDoc) =>
        \A i \in 1..Len(ItemsOf(OnlyChild)) :
            LET li == ItemsOf(OnlyChild)[i]
                parent == process_list_item(li, MarkerOf(OnlyChild.name), 0)
            IN  /\ Contains(jira_markup, parent)
                /\ \A j \in 1..Len(ListsIn(li)) :
                       LET m2 == MarkerOf(ListsIn(li)[j].name)
                       IN  \A k \in 1..Len(ItemsOf(ListsIn(li)[j])) :
                              Contains(parent,
                                       <<NL, m2, m2>>
                                           \o LabelOf(ItemsOf(ListsIn(li)[j])[k]))

(***************************************************************************)
(* C17: the content a list item renders itself (not its nested lists) is   *)
(* trimmed of leading and trailing whitespace before the prefix is         *)
(* attached, and the rendering of the item ends with exactly one newline.  *)
(***************************************************************************)
\* the children of the item that are not lists, rendered and concatenated
DirectContent(li, marker) ==
    join([i \in 1..Len(li.children) |->
            IF li.children[i].name \in ListKinds THEN <<>>
            ELSE process_element(li.children[i], marker, 0)])

EndsWithOneNewline(s) ==
    /\ Len(s) >= 1
    /\ s[Len(s)] = NL
    /\ Len(s) >= 2 => s[Len(s) - 1] # NL

\* the item's rendering starts with prefix, space, trimmed direct content and
\* goes on, if at all, with a newline
C17_DirectTrimmed ==
    (pc = "walked" /\ IsListDoc /\ Len(ItemsOf(OnlyChild)) = 1) =>
        LET m1 == MarkerOf(OnlyChild.name)
            head == <<m1, " ">> \o strip(DirectContent(ItemsOf(OnlyChild)[1], m1))
        IN  /\ StartsWith(jira_markup, head \o <<NL>>)
            /\ EndsWithOneNewline(jira_markup)

\* what does hold: every item's rendering ends with exactly one newline
C17_EndsWithOneNewline ==
    (pc = "walked" /\ IsListDoc) =>
        \A i \in 1..Len(ItemsOf(OnlyChild)) :
            EndsWithOneNewline(
                process_list_item(ItemsOf(OnlyChild)[i],
                                  MarkerOf(OnlyChild.name), 0))

(***************************************************************************)
(* C18: a ul (ol) renders as the list-item renderings of its direct li     *)
(* children, in order, with marker * (#) at the current level; its other   *)
(* children (text, lists, other elements) add nothing.                     *)
(***************************************************************************)
\* the item renderings of the li among the children of the list
ItemRenderings(list, list_level) ==
    join([i \in 1..Len(ItemsOf(list)) |->
            process_list_item(ItemsOf(list)[i], MarkerOf(list.name), list_level)])

\* every li child of the list holds one text and nothing else
PlainList(list) ==
    \A i \in 1..Len(ItemsOf(list)) :
        /\ Len(ItemsOf(list)[i].children) = 1
        /\ ItemsOf(list)[i].children[1].kind = "text"
        /\ strip(ItemsOf(list)[i].children[1].text) = ItemsOf(list)[i].children[1].text

\* marker, space, text, newline for each li child
PlainLines(list) ==
    join([i \in 1..Len(ItemsOf(list)) |->
            <<MarkerOf(list.name), " ">> \o ItemsOf(list)[i].children[1].text
                \o <<NL>>])

C18_DirectItemsOnly ==
    pc = "walked" =>
        LET below == descendants(soup)
        IN  \* the top-level list of the document, as it was emitted
            /\ IsListDoc =>
                 /\ jira_markup = ItemRenderings(OnlyChild, 0)
                 /\ PlainList(OnlyChild) => jira_markup = PlainLines(OnlyChild)
            \* every list of the tree, at every level and under every marker
            /\ \A n \in 1..Len(below) : below[n].name \in ListKinds =>
                 \A list_type \in ListTypes : \A list_level \in 0..2 :
                    /\ process_element(below[n], list_type, list_level) =
                           ItemRenderings(below[n], list_level)
                    /\ ItemsOf(below[n]) # <<>> =>
                           StartsWith(
                               process_element(below[n], list_type, list_level),
                               repeat(MarkerOf(below[n].name), list_level + 1)
                                   \o <<" ">>)

\* a list with a text and a list before an item among its children
C18_Witness ==
    /\ pc = "walked"
    /\ IsListDoc
    /\ Len(OnlyChild.children) = 3
    /\ OnlyChild.children[1].kind = "text"
    /\ OnlyChild.children[2].name \in ListKinds
    /\ OnlyChild.children[3].name = "li"
    /\ jira_markup = PlainLines(OnlyChild)

(***************************************************************************)
(* C19: the direct rows of a table are rendered if and only if its header  *)
(* and body sections produced no row line (there is no section, or no row  *)
(* of a section has a cell); a direct row is in double-pipe syntax if it   *)
(* holds a header cell and in single-pipe syntax otherwise.                *)
(***************************************************************************)
\* K times the field y between single or double pipes, h first or last
RowHeaderLines(K) ==
    LET ys == [c \in 1..K |-> <<"y">>]
    IN  <<Delimited(<<"|", "|">>, <<<<"h">>>> \o ys),
          Delimited(<<"|", "|">>, ys \o <<<<"h">>>>),
          Delimited(<<"|">>, ys)>>

RuleRows(table) ==
    LET sections == find_all(table, {"thead", "tbody"})
    IN  join([i \in 1..Len(sections) |-> find_all(sections[i], {"tr"})])
            \o find_all_direct(table, {"tr"})

\* some such row has a cell
HasRowWithCells(table) ==
    \E i \in 1..Len(RuleRows(table)) :
        find_all(RuleRows(table)[i], {"th", "td"}) # <<>>

IsRowLine(line) ==
    /\ Len(line) >= 2
    /\ line[1] = "|"
    /\ line[Len(line)] = "|"

\* no cell of the table renders to more than one line
SingleLineCells(table) ==
    \A i \in 1..Len(find_all(table, {"th", "td"})) :
        Positions(inline_children(find_all(table, {"th", "td"})[i]), NL) = {}

C20_RowsThenTwoNewlines ==
    (pc = "walked" /\ IsTableDoc) =>
        IF HasRowWithCells(OnlyChild)
        THEN LET pieces == split_lines(jira_markup)
                 n == Len(jira_markup)
             IN  \* a row line first, exactly two newlines last
                 /\ n >= 4
                 /\ jira_markup[1] = "|"
                 /\ SubSeq(jira_markup, n - 2, n) = <<"|", NL, NL>>
                 \* one row line per piece, nothing between them
                 /\ SingleLineCells(OnlyChild) =>
                        /\ pieces[Len(pieces)] = <<>>
                        /\ pieces[Len(pieces) - 1] = <<>>
                        /\ \A i \in 1..(Len(pieces) - 2) : IsRowLine(pieces[i])
        ELSE jira_markup = <<>>

\* three row lines, one newline between them and two after the last
C20_Witness ==
    /\ pc = "walked"
    /\ IsTableDoc
    /\ HasRowWithCells(OnlyChild)
    /\ Len(split_lines(jira_markup)) = 5

\* rows without any cell give the empty string
C20_EmptyWitness ==
    /\ pc = "walked"
    /\ IsTableDoc
    /\ find_all(OnlyChild, {"tr"}) # <<>>
    /\ ~HasRowWithCells(OnlyChild)
    /\ jira_markup = <<>>

(***************************************************************************)
(* C21: a blockquote renders as one line `bq. <line>` for every non-blank  *)
(* line of its rendered children, the line trimmed and blank lines         *)
(* dropped, each ended by one newline, and one more newline after the      *)
(* block.                                                                  *)
(***************************************************************************)
\* the children of the only element, rendered and concatenated
ChildrenRendered ==
    join([i \in 1..Len(OnlyChild.children) |->
            process_element(OnlyChild.children[i], "None", 0)])

\* the lines of s that are not blank, each trimmed
TrimmedLines(s) ==
    LET lines == split_lines(s)
        kept == SelectSeq([i \in 1..Len(lines) |-> strip(lines[i])],
                          LAMBDA l : l # <<>>)
    IN  kept

QuoteBlock(lines) ==
    join([i \in 1..Len(lines) |-> <<"b", "q", ".", " ">> \o lines[i] \o <<NL>>])
        \o <<NL>>

C21_QuoteLines ==
    (pc = "walked" /\ HasOnlyChild({"blockquote"})) =>
        /\ jira_markup = QuoteBlock(TrimmedLines(ChildrenRendered))
        /\ OnlyChild.children = <<Txt(<<"b", NL, NL, " ", "c">>),
                                  El("p", <<Txt(<<"x">>)>>)>> =>
               jira_markup = <<"b", "q", ".", " ", "b", NL,
                               "b", "q", ".", " ", "c", "x", NL, NL>>

\* the rendered children hold a blank line and a padded line
C21_Witness ==
    /\ pc = "walked"
    /\ HasOnlyChild({"blockquote"})
    /\ HasNewlineRun(ChildrenRendered, 2)
    /\ Len(TrimmedLines(ChildrenRendered)) = 2
    /\ \E i \in 1..Len(split_lines(ChildrenRendered)) :
           /\ strip(split_lines(ChildrenRendered)[i]) # <<>>
           /\ strip(split_lines(ChildrenRendered)[i])
                  # split_lines(ChildrenRendered)[i]

(***************************************************************************)
(* C22: an img renders as `!<src>!` if and only if its src attribute is    *)
(* non-empty and as the empty string otherwise; its alt attribute never    *)
(* changes the output.                                                     *)
(***************************************************************************)
\* the attributes without alt
WithoutAlt(attrs) == SelectSeq(attrs, LAMBDA a : a[1] # "alt")

C22_ImageFromSrc ==
    (pc = "walked" /\ HasOnlyChild({"img"})) =>
        LET attrs == OnlyChild.attrs
            has_src == HasAttr(attrs, "src") /\ AttrValue(attrs, "src") # <<>>
        IN  /\ has_src =>
                jira_markup = <<"!">> \o AttrValue(attrs, "src") \o <<"!">>
            /\ ~has_src => jira_markup = <<>>
            \* the same element without its alt renders the same
            /\ jira_markup =
                   process_element(Tag("img", WithoutAlt(attrs), <<>>), "None", 0)

\* an img with a src and an alt that differs from it
C22_Witness ==
    /\ pc = "walked"
    /\ HasOnlyChild({"img"})
    /\ HasAttr(OnlyChild.attrs, "src")
    /\ AttrValue(OnlyChild.attrs, "src") # <<>>
    /\ HasAttr(OnlyChild.attrs, "alt")
    /\ AttrValue(OnlyChild.attrs, "alt") = <<"t">>
    /\ jira_markup = <<"!", "u", "/", "v", "!">>

(***************************************************************************)
(* C23: b/strong render their children C as *C*, i/em as _C_, u as +C+,    *)
(* s/strike/del as -C-, with no newline added; the tags of one group       *)
(* render the same children the same way.                                  *)
(***************************************************************************)
Delimiter(tag) ==
    CASE tag \in {"b", "strong"} -> "*"
      [] tag \in {"i", "em"} -> "_"
      [] tag = "u" -> "+"
      [] tag \in {"s", "strike", "del"} -> "-"

C23_InlineDelimiters ==
    (pc = "walked" /\ HasOnlyChild(FormatTags)) =>
        /\ jira_markup =
               <<Delimiter(OnlyChild.name)>> \o ChildrenRendered
                   \o <<Delimiter(OnlyChild.name)>>
        /\ Cardinality(Positions(jira_markup, NL))
               = Cardinality(Positions(ChildrenRendered, NL))
        /\ \A tag \in FormatTags :
               Delimiter(tag) = Delimiter(OnlyChild.name) =>
                   process_element(El(tag, OnlyChild.children), "None", 0)
                       = jira_markup

\* a struck-through text with whitespace at both ends, kept inside the pair
C23_Witness ==
    /\ pc = "walked"
    /\ HasOnlyChild({"strike"})
    /\ jira_markup = <<"-", " ", "a", " ", "-">>

(***************************************************************************)
(* C24: in the returned string the items of one list, top-level or nested, *)
(* stand on consecutive lines: no blank line between two sibling items.    *)
(***************************************************************************)
C24_SiblingsAdjacent ==
    (pc = "returned" /\ IsListDoc) =>
        \A k1 \in ListKinds, k2 \in ListKinds,
           nOut \in 1..MaxItems, nIn \in 1..MaxItems :
            soup = ListDoc2(k1, k2, nOut, nIn, <<>>) =>
                split_lines(jira_markup) = NestedLines(k1, k2, nOut, nIn)

\* what does hold: the items of a top-level list of plain items are adjacent
C24_TopLevelAdjacent ==
    (pc = "returned" /\ IsListDoc /\ PlainList(OnlyChild)
        /\ ItemsOf(OnlyChild) # <<>>) =>
        split_lines(jira_markup) =
            [i \in 1..Len(ItemsOf(OnlyChild)) |->
                <<MarkerOf(OnlyChild.name), " ">>
                    \o ItemsOf(OnlyChild)[i].children[1].text]

(***************************************************************************)
(* C25: every row of a table that has a cell gives exactly one row line of *)
(* the table's rendering: none is dropped, none is emitted twice.          *)
(***************************************************************************)
C25_EveryRowOnce ==
    (pc = "walked" /\ IsTableDoc) =>
        \A layout \in Layouts, R \in 1..MaxCols, C \in 0..MaxRows,
           K \in 1..MaxCols, style \in CellStyles :
            soup = TableDoc(layout, R, C, K, style) =>
                NonBlankLines(jira_markup) = TableLines(R, C, K, style)

(***************************************************************************)
(* C26: every row line process_table emits is a single line: the rendered  *)
(* content of a cell never holds a newline, whatever the cell contains.    *)
(***************************************************************************)
C26_RowLinesSingle ==
    (pc = "walked" /\ IsTableDoc /\ HasRowWithCells(OnlyChild)) =>
        LET pieces == split_lines(jira_markup)
        IN  \A i \in 1..(Len(pieces) - 2) : IsRowLine(pieces[i])

(***************************************************************************)
(* C27: wrapping a node of the tree in a transparent container (div, span  *)
(* or an unknown tag) does not change the returned string, also when the   *)
(* node is a list item under ul/ol or a list nested in a list item.        *)
(***************************************************************************)
\* a div, span or unknown element; the tags of lists and tables are known
IsWrapper(node) ==
    /\ IsContainer(node)
    /\ node.name \notin {"[document]", "li", "thead", "tbody", "tr", "th", "td"}

\* the node inside the wrappers that hold nothing but it
RECURSIVE Peel(_)
Peel(node) ==
    IF IsWrapper(node) /\ Len(node.children) = 1
    THEN Peel(node.children[1])
    ELSE node

\* the tree with every such wrapper taken away
RECURSIVE Unwrapped(_)
Unwrapped(node) ==
    IF node.kind = "text" THEN node
    ELSE Tag(node.name, node.attrs,
             [i \in 1..Len(node.children) |-> Unwrapped(Peel(node.children[i]))])

C27_WrapInvisible ==
    pc = "returned" => jira_markup = html_to_jira_markup(Unwrapped(soup))

\* what does hold: a wrapper around the only node of the document
C27_TopLevelWrapInvisible ==
    (pc = "returned" /\ Len(soup.children) = 1 /\ IsWrapper(OnlyChild)
        /\ Len(OnlyChild.children) = 1) =>
        jira_markup = html_to_jira_markup(BeautifulSoup(OnlyChild.children))


(***************************************************************************)
(* 3.py: main and process_email_to_jira                                    *)
(*                                                                         *)
(* A message of the folder is a record: `id` (its rank by receivedDateTime,*)
(* a later message has a larger id) and `hasFrom` (the JSON carries a      *)
(* `from` object); its `hasAttachments` flag is read when the call gets to *)
(* it.  `folder` is the folder on the mail server, `issues` the issues on  *)
(* the JIRA server (issues[k] is the id of the message the k-th issue was  *)
(* created from).  Every request to a server succeeds or fails:            *)
(* `requests` lists the requests of the current                            *)
(* call of process_email_to_jira, `outcomes` the calls of the current run  *)
(* of main with the value each returned.                                   *)
(***************************************************************************)
\* the largest number of messages in the folder
MaxMessages == 3

\* the number of runs of main over the folder
MaxRuns == 2

\* BATCH_SIZE = int(os.getenv('BATCH_SIZE', '10')): set per deployment; small
\* here, so that the folder can hold more than one batch
BATCH_SIZE == 2

Message == [id : 1..MaxMessages, hasFrom : BOOLEAN]

\* the folders: no two messages share an id
Folders ==
    {f \in SUBSET Message : \A m \in f : \A n \in f : m.id = n.id => m = n}

RECURSIVE newest_first(_)
\* '$orderby': 'receivedDateTime desc'
newest_first(fld) ==
    IF fld = {} THEN <<>>
    ELSE LET m == CHOOSE x \in fld : \A y \in fld : y.id <= x.id
         IN  <<m>> \o newest_first(fld \ {m})

\* GraphAPIClient.get_messages_from_folder: '$top': limit
get_messages_from_folder(fld, limit) ==
    LET all == newest_first(fld)
    IN  SubSeq(all, 1, IF Len(all) < limit THEN Len(all) ELSE limit)

\* a send_email that logs the error and goes on, as delete_message does
send_email_swallows(ok) ==
    "returns"

\* JiraTicketCreator.create_ticket: logs the error and raises it again
create_ticket(ok) ==
    IF ok THEN "returns" ELSE "raises"

\* GraphAPIClient.send_email: logs the error and raises it again
send_email(ok) ==
    IF ok THEN "returns" ELSE "raises"

\* GraphAPIClient.delete_message: logs the error, does not raise it
delete_message(ok) ==
    "returns"

\* a loop that counts every call, whatever it returned
counted_always(count, value) ==
    count + 1

\* if process_email_to_jira(...): success_count += 1
counted(count, value) ==
    IF value THEN count + 1 ELSE count

\* the message the loop of main is at
Current == messages[message]

\* state after construction: a folder with mail, no issue, main not yet run
MailInit ==
    /\ pc = "off"
    /\ soup = <<>>
    /\ jira_markup = <<>>
    /\ main_pc = "idle"
    /\ folder \in Folders
    /\ issues = <<>>
    /\ runs = 0
    /\ messages = <<>>
    /\ message = 0
    /\ success_count = 0
    /\ jira_issue = "None"
    /\ requests = <<>>
    /\ outcomes = <<>>
    /\ reported = "None"

\* main: graph_client = GraphAPIClient(...); jira_client = JiraTicketCreator(...)
\* (JIRA(server=...) connects and may raise: main logs and raises again)
Connect ==
    /\ main_pc \in {"idle", "finished", "raised"}
    /\ runs < MaxRuns
    /\ runs' = runs + 1
    /\ \E ok \in BOOLEAN :
        main_pc' = IF ok THEN "get_folder_id" ELSE "raised"
    /\ messages' = <<>>
    /\ message' = 0
    /\ success_count' = 0
    /\ jira_issue' = "None"
    /\ requests' = <<>>
    /\ outcomes' = <<>>
    /\ reported' = "None"
    /\ UNCHANGED <<conv_vars, folder, issues>>

\* main: folder_id = graph_client.get_folder_id(FOLDER_NAME);
\*       if not folder_id: return
GetFolderId ==
    /\ main_pc = "get_folder_id"
    /\ \E reply \in {"found", "None", "raises"} :
        main_pc' = CASE reply = "found" -> "get_messages"
                [] reply = "None" -> "finished"
                [] OTHER -> "raised"
    /\ UNCHANGED <<conv_vars, folder, issues, runs, messages, message,
                   success_count, jira_issue, requests, outcomes, reported>>

\* main: messages = graph_client.get_messages_from_folder(folder_id, BATCH_SIZE);
\*       if not messages: return;  success_count = 0;  for message in messages:
GetMessages ==
    /\ main_pc = "get_messages"
    /\ \E ok \in BOOLEAN :
        IF ~ok
        THEN /\ main_pc' = "raised"
             /\ UNCHANGED <<messages, message>>
        ELSE LET got == get_messages_from_folder(folder, BATCH_SIZE)
             IN  /\ messages' = got
                 /\ message' = IF got = <<>> THEN 0 ELSE 1
                 /\ main_pc' = IF got = <<>> THEN "finished" ELSE "call"
    /\ success_count' = 0
    /\ UNCHANGED <<conv_vars, folder, issues, runs, jira_issue, requests,
                   outcomes, reported>>

\* process_email_to_jira: subject, sender (email_message['from']['emailAddress']),
\* message_id, received_date, body; a message without `from` raises KeyError,
\* which the except clause turns into return False
ReadMessage ==
    /\ main_pc = "call"
    /\ IF Current.hasFrom
       THEN /\ main_pc' = "create_ticket"
            /\ UNCHANGED outcomes
       ELSE /\ main_pc' = "returned"
            /\ outcomes' = Append(outcomes, [id |-> Current.id, value |-> FALSE])
    /\ UNCHANGED <<conv_vars, folder, issues, runs, messages, message,
                   success_count, jira_issue, requests, reported>>

\* process_email_to_jira: jira_issue = jira_client.create_ticket(...)
CreateTicket ==
    /\ main_pc = "create_ticket"
    /\ \E ok \in BOOLEAN :
        /\ requests' = Append(requests, [op |-> "create_ticket", ok |-> ok])
        /\ issues' = IF ok THEN Append(issues, Current.id) ELSE issues
        /\ IF create_ticket(ok) = "returns"
           THEN /\ jira_issue' = Len(issues')
                /\ main_pc' = "attachments"
                /\ UNCHANGED outcomes
           ELSE /\ main_pc' = "returned"
                /\ outcomes' = Append(outcomes,
                                      [id |-> Current.id, value |-> FALSE])
                /\ UNCHANGED jira_issue
    /\ UNCHANGED <<conv_vars, folder, runs, messages, message, success_count,
                   reported>>

\* process_email_to_jira: if email_message.get('hasAttachments'): ... ;
\* get_attachments returns [] on an error and add_attachment logs its error,
\* neither raises
Attachments ==
    /\ main_pc = "attachments"
    /\ \E hasAttachments \in BOOLEAN, fetched \in BOOLEAN, added \in BOOLEAN :
        requests' =
            IF ~hasAttachments THEN requests
            ELSE IF ~fetched
            THEN Append(requests, [op |-> "get_attachments", ok |-> FALSE])
            ELSE requests \o <<[op |-> "get_attachments", ok |-> TRUE],
                               [op |-> "add_attachment", ok |-> added]>>
    /\ main_pc' = "send_email"
    /\ UNCHANGED <<conv_vars, folder, issues, runs, messages, message,
                   success_count, jira_issue, outcomes, reported>>

\* process_email_to_jira: graph_client.send_email(...)
SendEmail ==
    /\ main_pc = "send_email"
    /\ \E ok \in BOOLEAN :
        /\ requests' = Append(requests, [op |-> "send_email", ok |-> ok])
        /\ IF send_email(ok) = "returns"
           THEN /\ main_pc' = "delete_message"
                /\ UNCHANGED outcomes
           ELSE /\ main_pc' = "returned"
                /\ outcomes' = Append(outcomes,
                                      [id |-> Current.id, value |-> FALSE])
    /\ UNCHANGED <<conv_vars, folder, issues, runs, messages, message,
                   success_count, jira_issue, reported>>

\* process_email_to_jira: graph_client.delete_message(message_id); return True
DeleteMessage ==
    /\ main_pc = "delete_message"
    /\ \E ok \in BOOLEAN :
        /\ requests' = Append(requests, [op |-> "delete_message", ok |-> ok])
        /\ folder' = IF ok THEN folder \ {Current} ELSE folder
        /\ IF delete_message(ok) = "returns"
           THEN outcomes' = Append(outcomes, [id |-> Current.id, value |-> TRUE])
           ELSE outcomes' = Append(outcomes, [id |-> Current.id, value |-> FALSE])
    /\ main_pc' = "returned"
    /\ UNCHANGED <<conv_vars, issues, runs, messages, message, success_count,
                   jira_issue, reported>>

\* main: if process_email_to_jira(...): success_count += 1, and the next message
\* (the locals of the finished call are gone)
Count ==
    /\ main_pc = "returned"
    /\ success_count' = counted(success_count, outcomes[Len(outcomes)].value)
    /\ jira_issue' = "None"
    /\ requests' = <<>>
    /\ IF message < Len(messages)
       THEN /\ message' = message + 1
            /\ main_pc' = "call"
       ELSE /\ main_pc' = "report"
            /\ UNCHANGED message
    /\ UNCHANGED <<conv_vars, folder, issues, runs, messages, outcomes,
                   reported>>

\* main: logger.info(f"Processed {success_count}/{len(messages)} emails successfully")
Report ==
    /\ main_pc = "report"
    /\ reported' = <<success_count, Len(messages)>>
    /\ main_pc' = "finished"
    /\ UNCHANGED <<conv_vars, folder, issues, runs, messages, message,
                   success_count, jira_issue, requests, outcomes>>

MailNext ==
    \/ Connect
    \/ GetFolderId
    \/ GetMessages
    \/ ReadMessage
    \/ CreateTicket
    \/ Attachments
    \/ SendEmail
    \/ DeleteMessage
    \/ Count
    \/ Report

MailSpec == MailInit /\ [][MailNext]_vars


(***************************************************************************)
(* Vocabulary of the mail properties                                       *)
(***************************************************************************)
\* the positions of the requests of kind `op` in the current call
RequestsOf(op) == {k \in DOMAIN requests : requests[k].op = op}

\* a request of kind `op` made before position k, and answered without error
DoneBefore(op, k) ==
    \E j \in RequestsOf(op) : j < k /\ requests[j].ok

\* a request of kind `op` of the current call failed
Failed(op) == \E k \in RequestsOf(op) : ~requests[k].ok

\* the value the last finished call of process_email_to_jira returned
LastValue == outcomes[Len(outcomes)].value

\* the number of calls of the current run that returned True
TrueCount == Cardinality({k \in DOMAIN outcomes : outcomes[k].value})

\* the number of issues created from the message `id`
IssuesFrom(id) == Cardinality({k \in DOMAIN issues : issues[k] = id})

\* C28: process_email_to_jira asks for the deletion of the message only after
\* create_ticket and then send_email of the same call returned without error;
\* when create_ticket or send_email raised, the call made no delete request
\* and returned False, and main is never left by an exception once a call of
\* process_email_to_jira has begun.
C28_DeleteOnlyAfterSend ==
    /\ \A k \in RequestsOf("delete_message") :
          \E j \in RequestsOf("send_email") :
              j < k /\ requests[j].ok /\ DoneBefore("create_ticket", j)
    /\ (Failed("create_ticket") \/ Failed("send_email")) =>
          /\ RequestsOf("delete_message") = {}
          /\ main_pc = "returned"
          /\ LastValue = FALSE
          /\ outcomes[Len(outcomes)].id = Current.id
    /\ main_pc = "raised" => (outcomes = <<>> /\ requests = <<>>)

\* a call that created the ticket, sent the confirmation, asked for the
\* deletion and returned True
C28_Witness ==
    /\ main_pc = "returned"
    /\ RequestsOf("delete_message") # {}
    /\ DoneBefore("send_email", Len(requests))
    /\ LastValue = TRUE

\* a call whose confirmation failed after the ticket was created
C28_SendFailedWitness ==
    /\ main_pc = "returned"
    /\ DoneBefore("create_ticket", Len(requests))
    /\ Failed("send_email")
    /\ LastValue = FALSE

\* C29: over all runs of main, no message has more than one issue created
\* from it.
C29_AtMostOneIssue ==
    \A id \in 1..MaxMessages : IssuesFrom(id) <= 1

\* a message keeps at most one issue as long as every call that created an
\* issue also removed the message from the folder
C29_OneIssuePerRun ==
    \A id \in 1..MaxMessages : IssuesFrom(id) <= runs

\* C30: in a run of main the calls of process_email_to_jira are made for the
\* retrieved messages, one call per message in the retrieved order, whatever
\* the earlier calls returned; main ends the loop only after the last
\* message, and it reports the number of calls that returned True out of the
\* number of messages.
C30_EachOnceInOrder ==
    /\ Len(outcomes) <= Len(messages)
    /\ \A k \in DOMAIN outcomes : outcomes[k].id = messages[k].id
    /\ main_pc \in {"call", "create_ticket", "attachments", "send_email",
                    "delete_message"} => Len(outcomes) = message - 1
    /\ main_pc = "returned" => Len(outcomes) = message
    /\ (main_pc \in {"report", "finished", "raised"} /\ messages # <<>>) =>
          Len(outcomes) = Len(messages)
    /\ main_pc = "report" => success_count = TrueCount
    /\ (main_pc = "finished" /\ messages # <<>>) =>
          /\ reported = <<TrueCount, Len(messages)>>
          /\ reported[1] <= Len(messages)
    /\ reported # "None" => main_pc = "finished"

\* a run whose first call failed and whose second call succeeded, reported
\* as 1 of 2
C30_Witness ==
    /\ main_pc = "finished"
    /\ Len(outcomes) = 2
    /\ outcomes[1].value = FALSE
    /\ outcomes[2].value = TRUE
    /\ reported = <<1, 2>>

====
